---- MODULE Spec2Model ----
(***************************************************************************)
(* Model of the tool-dispatch core of xtquantai (src/src/xtquantai/        *)
(* server.py): the startup guard ensure_xtdc_initialized, the dispatcher   *)
(* handle_call_tool, the market-data handlers and the two panel handlers   *)
(* create_chart_panel / create_custom_layout.                              *)
(*                                                                         *)
(* Text is modelled character by character: a Python str is a sequence of  *)
(* one-character strings, so that split(","), strip() and ",".join() are   *)
(* computed and not assumed.  A Chinese character of a message literal is  *)
(* written as one token holding its pinyin ("cuo" for the first character  *)
(* of the error prefix), since the module text is ASCII.                   *)
(***************************************************************************)
EXTENDS Integers, Sequences, FiniteSets, TLC

\* ------------------------------------------------------------------ bounds

\* Number of tool calls issued in one run of the process.
MaxCalls == 2

\* Length of the longest stock list the backend returns (more than the five
\* codes the panel tools take).
MaxStocks == 6

\* Concurrently pending tool calls (tasks of the event loop).
Tasks == {1, 2}

\* Number of guard calls made by preemptively scheduled workers.
MaxGuardCalls == 3

\* ------------------------------------------------------------------ text

Space == " "
Comma == ","
Dot == "."

RECURSIVE LStrip(_)
LStrip(s) ==
  IF s = <<>> THEN <<>>
  ELSE IF Head(s) = Space THEN LStrip(Tail(s)) ELSE s

RECURSIVE RStrip(_)
RStrip(s) ==
  IF s = <<>> THEN <<>>
  ELSE IF s[Len(s)] = Space THEN RStrip(SubSeq(s, 1, Len(s) - 1)) ELSE s

\* str.strip()
Strip(s) == RStrip(LStrip(s))

\* str.split(","): always at least one piece; "" gives [""].
RECURSIVE SplitFrom(_, _, _)
SplitFrom(s, i, cur) ==
  IF i > Len(s) THEN <<cur>>
  ELSE IF s[i] = Comma THEN <<cur>> \o SplitFrom(s, i + 1, <<>>)
  ELSE SplitFrom(s, i + 1, Append(cur, s[i]))

Split(s) == SplitFrom(s, 1, <<>>)

\* ",".join(list)
RECURSIVE Join(_)
Join(l) ==
  IF l = <<>> THEN <<>>
  ELSE IF Len(l) = 1 THEN l[1]
  ELSE l[1] \o <<Comma>> \o Join(Tail(l))

RECURSIVE StripNonEmpty(_)
StripNonEmpty(l) ==
  IF l = <<>> THEN <<>>
  ELSE IF Strip(Head(l)) = <<>> THEN StripNonEmpty(Tail(l))
  ELSE <<Strip(Head(l))>> \o StripNonEmpty(Tail(l))

\* [code.strip() for code in s.split(",") if code.strip()]
SplitCodes(s) == StripNonEmpty(Split(s))

\* ---------------------------------------------------------------- literals

\* "000001.SZ" and "600519.SH"
PingAn == <<"0", "0", "0", "0", "0", "1", ".", "S", "Z">>
Moutai == <<"6", "0", "0", "5", "1", "9", ".", "S", "H">>

\* the literal "000001.SZ,600519.SH"
FallbackCodes == PingAn \o <<Comma>> \o Moutai

\* the two codes the literal holds
FallbackStocks == <<PingAn, Moutai>>

\* the default sector, four characters
DefaultSector == <<"hu", "shen", "A", "gu">>

\* "cuo wu" + ": " : the prefix of f"错误: {str(e)}"
ErrorPrefix == <<"cuo", "wu", ":", " ">>

\* f"未找到板块 {sector} 的股票列表"
NotFoundSectorMsg(sector) ==
  <<"wei", "zhao", "dao", "ban", "kuai", " ">> \o sector
    \o <<" ", "de", "gu", "piao", "lie", "biao">>

\* "错误: 缺少必要参数 '<field>'" : the text names the field
MissingParamMsg(field) == [missing |-> field]

UnknownToolError == "ValueError: Unknown tool"

\* first-5 slice of the auto-filled codes, stock-list and trading-date limits
PanelDefaultCount == 5
StockListLimit == 50
TradingDatesLimit == 30

\* ------------------------------------------------------------------ values

\* A Python value: a str (s), an int (n), a bool (n in {0,1}), a list of n
\* elements (a JSON array given as an argument), an opaque object, or the
\* marker of a key that the arguments mapping lacks.
StrV(s) == [t |-> "str", s |-> s, n |-> 0]
IntV(n) == [t |-> "int", s |-> <<>>, n |-> n]
BoolV(b) == [t |-> "bool", s |-> <<>>, n |-> IF b THEN 1 ELSE 0]
ListV(n) == [t |-> "list", s |-> <<>>, n |-> n]
Obj == [t |-> "obj", s |-> <<>>, n |-> 0]
Absent == [t |-> "absent", s |-> <<>>, n |-> 0]

IsStr(v) == v.t = "str"

\* Python truthiness, as `not arguments["codes"]` uses it
Truthy(v) ==
  \/ v.t = "str" /\ v.s # <<>>
  \/ v.t \in {"int", "bool", "list"} /\ v.n # 0
  \/ v.t = "obj"

DigitChar == <<"0", "1", "2", "3", "4", "5", "6", "7", "8", "9">>
Digits == {DigitChar[i] : i \in 1..10}

\* str(n) for n >= 0
RECURSIVE IntToStr(_)
IntToStr(n) ==
  IF n < 10 THEN <<DigitChar[n + 1]>>
  ELSE IntToStr(n \div 10) \o <<DigitChar[(n % 10) + 1]>>

\* ---------------------------------------------------------------- arguments

ToolNames ==
  << "get_trading_dates", "get_stock_list", "get_instrument_detail",
     "get_history_market_data", "get_latest_market_data",
     "get_full_market_data", "create_chart_panel", "create_custom_layout" >>

Registered == {ToolNames[i] : i \in 1..Len(ToolNames)}

MarketDataTools ==
  {"get_history_market_data", "get_latest_market_data", "get_full_market_data"}

PanelTools == {"create_chart_panel", "create_custom_layout"}

ArgKeys ==
  { "market", "sector", "code", "iscomplete", "codes", "period", "start_date",
    "end_date", "fields", "indicators", "params", "indicator_name",
    "param_names", "param_values" }

\* handle_list_tools, lines 250-448: the tools in the order of the list, each
\* with the "required" array of its inputSchema (<<>> where it has none)
ToolListing ==
  << [name |-> "get_trading_dates", required |-> <<>>],
     [name |-> "get_stock_list", required |-> <<>>],
     [name |-> "get_instrument_detail", required |-> <<"code">>],
     [name |-> "get_history_market_data", required |-> <<"codes">>],
     [name |-> "get_latest_market_data", required |-> <<"codes">>],
     [name |-> "get_full_market_data", required |-> <<"codes">>],
     [name |-> "create_chart_panel", required |-> <<"codes">>],
     [name |-> "create_custom_layout", required |-> <<"codes">>] >>

\* The arguments of a call: None, or a mapping that holds some of the keys.
NoneArgs == [none |-> TRUE, kv |-> [k \in ArgKeys |-> Absent]]
EmptyArgs == [none |-> FALSE, kv |-> [k \in ArgKeys |-> Absent]]
With(a, k, v) == [none |-> FALSE, kv |-> [a.kv EXCEPT ![k] = v]]

\* `not arguments`
ArgsFalsy(a) == a.none \/ \A k \in ArgKeys : a.kv[k] = Absent
\* `"k" in arguments`, evaluated where arguments is known not to be None
HasKey(a, k) == a.kv[k] # Absent
\* arguments.get(k, default)
Get(a, k, default) == IF HasKey(a, k) THEN a.kv[k] ELSE default

\* The defaults handle_call_tool applies to the keys a call leaves out.
Default ==
  [k \in ArgKeys |->
     CASE k = "market" -> StrV(<<"S", "H">>)
       [] k = "sector" -> StrV(DefaultSector)
       [] k = "iscomplete" -> BoolV(FALSE)
       [] k = "period" -> StrV(<<"1", "d">>)
       [] k \in {"start_date", "end_date", "fields"} -> StrV(<<>>)
       [] k \in {"indicators", "indicator_name"} -> StrV(<<"m", "a">>)
       [] k \in {"params", "param_values"} ->
            StrV(<<"5", ",", "1", "0", ",", "2", "0">>)
       [] k = "param_names" ->
            StrV(<<"n", "1", ",", "n", "2", ",", "n", "3">>)
       [] OTHER -> Absent]

\* the value the handler receives for key k
Effective(a, k) == Get(a, k, Default[k])

\* The str fields of each tool's input model (the pydantic classes).
ModelFields(name) ==
  CASE name = "get_trading_dates" -> {"market"}
    [] name = "get_stock_list" -> {"sector"}
    [] name = "get_instrument_detail" -> {"code"}
    [] name \in {"get_history_market_data", "get_full_market_data"} ->
         {"codes", "period", "start_date", "end_date", "fields"}
    [] name = "get_latest_market_data" -> {"codes", "period"}
    [] name = "create_chart_panel" -> {"codes", "period", "indicators", "params"}
    [] name = "create_custom_layout" ->
         {"codes", "period", "indicator_name", "param_names", "param_values"}
    [] OTHER -> {}

\* Construction of the input model succeeds iff every str field is given a
\* str (a list is rejected for a str field; iscomplete is made a bool by
\* handle_call_tool before the model is built).
ValidModel(name, a) == \A k \in ModelFields(name) : IsStr(Effective(a, k))

\* The key whose absence handle_call_tool answers with the missing-parameter
\* text; "" for the tools that check none.
CheckedKey(name) ==
  CASE name = "get_instrument_detail" -> "code"
    [] name \in MarketDataTools -> "codes"
    [] OTHER -> ""

\* `"codes" not in arguments or not arguments["codes"]`, after `if not
\* arguments: arguments = {}`
CodesMissing(a) == ~HasKey(a, "codes") \/ ~Truthy(a.kv["codes"])

\* handle_call_tool from its entry to the first handler it awaits:
\* where the call goes next, and what it returns or raises if it ends here.
DispatchOutcome(name, a) ==
  IF name \notin Registered
    THEN [next |-> "raise", val |-> UnknownToolError]
  ELSE IF CheckedKey(name) # "" /\ (ArgsFalsy(a) \/ ~HasKey(a, CheckedKey(name)))
    THEN [next |-> "content", val |-> MissingParamMsg(CheckedKey(name))]
  ELSE IF name \in MarketDataTools /\ ~IsStr(a.kv["codes"])
    THEN [next |-> "raise", val |-> "AttributeError"]
  ELSE IF name \in {"get_history_market_data", "get_full_market_data"}
          /\ ~IsStr(Effective(a, "fields"))
    THEN [next |-> "raise", val |-> "AttributeError"]
  ELSE IF name \in PanelTools /\ CodesMissing(a)
    THEN [next |-> "lookup", val |-> <<>>]
  ELSE IF ~ValidModel(name, a)
    THEN [next |-> "raise", val |-> "ValidationError"]
  ELSE [next |-> "handler", val |-> <<>>]

\* ------------------------------------------------------------------ backend

\* What a backend method does in one invocation: it returns a value, returns
\* None, or raises an exception with a message.
ExcMsgs == { <<"b", "o", "o", "m">>, <<"a", ",", "b">> }

\* the i-th stock code of the backend's list: 0000NN.SZ
StockCode(i) ==
  <<"0", "0", "0", "0", DigitChar[(i \div 10) + 1], DigitChar[(i % 10) + 1],
    ".", "S", "Z">>

StockListOf(k) == [i \in 1..k |-> StockCode(i)]

StockListLens == {0, 1, 2, MaxStocks}

StockListOutcomes ==
  {[kind |-> "ok", list |-> StockListOf(k), msg |-> <<>>] : k \in StockListLens}
    \cup {[kind |-> "null", list |-> <<>>, msg |-> <<>>]}
    \cup {[kind |-> "raise", list |-> <<>>, msg |-> m] : m \in ExcMsgs}

\* what get_stock_list_in_sector does when the get_stock_list tool calls it:
\* as above, and a list of more codes than the tool returns
HandlerStockListOutcomes ==
  StockListOutcomes
    \cup {[kind |-> "ok", list |-> StockListOf(StockListLimit + 1), msg |-> <<>>]}

\* trading dates: 8-digit ints, another int, a str
DateLists ==
  { <<>>,
    <<IntV(20230103), IntV(305), StrV(<<"2", "0", "2", "3", "-", "0", "1", "-", "0", "4">>)>>,
    [i \in 1..(TradingDatesLimit + 1) |-> IntV(20230100 + i)] }

DateOutcomes ==
  {[kind |-> "ok", list |-> l, msg |-> <<>>] : l \in DateLists}
    \cup {[kind |-> "null", list |-> <<>>, msg |-> <<>>]}
    \cup {[kind |-> "raise", list |-> <<>>, msg |-> m] : m \in ExcMsgs}

\* an instrument detail: pairs of a key and a value; one value is no scalar
DetailOf(code) ==
  << [k |-> "code", v |-> StrV(code)], [k |-> "price", v |-> IntV(100)],
     [k |-> "ext", v |-> Obj] >>

SimpleOutcomes == {"ok", "null", "raise"}

\* ----------------------------------------------------------------- handlers

Min(a, b) == IF a < b THEN a ELSE b

\* variant: the list is returned without the [:50] slice
GetStockListResultNoLimit(sector, o) ==
  IF o.kind = "raise" THEN <<ErrorPrefix \o o.msg>>
  ELSE IF o.kind = "null" \/ Len(o.list) = 0 THEN <<NotFoundSectorMsg(sector)>>
  ELSE o.list

\* get_stock_list after its guard call (lines 710-726)
GetStockListResult(sector, o) ==
  IF o.kind = "raise" THEN <<ErrorPrefix \o o.msg>>
  ELSE IF o.kind = "null" \/ Len(o.list) = 0 THEN <<NotFoundSectorMsg(sector)>>
  ELSE IF Len(o.list) > StockListLimit THEN SubSeq(o.list, 1, StockListLimit)
  ELSE o.list

\* the date formatting of get_trading_dates (lines 672-686)
FormatDate(d) ==
  IF d.t = "int"
    THEN LET ds == IntToStr(d.n)
         IN IF Len(ds) = 8
              THEN SubSeq(ds, 1, 4) \o <<"-">> \o SubSeq(ds, 5, 6) \o <<"-">>
                     \o SubSeq(ds, 7, 8)
              ELSE ds
    ELSE d.s

\* "未找到交易日期数据"
NoDatesMsg == <<"wei", "zhao", "dao", "jiao", "yi", "ri", "qi", "shu", "ju">>

\* variant: the first 30 dates are kept, not the last 30
GetTradingDatesResultOldest(o) ==
  IF o.kind = "raise" THEN <<ErrorPrefix \o o.msg>>
  ELSE IF o.kind = "null" \/ Len(o.list) = 0 THEN <<NoDatesMsg>>
  ELSE [i \in 1..Min(Len(o.list), TradingDatesLimit) |-> FormatDate(o.list[i])]

\* get_trading_dates after its guard call (lines 657-692)
GetTradingDatesResult(o) ==
  IF o.kind = "raise" THEN <<ErrorPrefix \o o.msg>>
  ELSE IF o.kind = "null" \/ Len(o.list) = 0
    THEN <<NoDatesMsg>>
  ELSE LET n == Len(o.list)
           recent == IF n > TradingDatesLimit
                       THEN SubSeq(o.list, n - TradingDatesLimit + 1, n)
                       ELSE o.list
       IN [i \in 1..Len(recent) |-> FormatDate(recent[i])]

\* str.lower() on the characters of "true"
Lower(c) ==
  CASE c = "T" -> "t" [] c = "R" -> "r" [] c = "U" -> "u" [] c = "E" -> "e"
    [] OTHER -> c

\* the iscomplete coercion of handle_call_tool (lines 496-502)
IsComplete(a) ==
  LET v == a.kv["iscomplete"]
  IN IF v.t = "bool" THEN v.n = 1
     ELSE IF v.t = "str"
       THEN [i \in 1..Len(v.s) |-> Lower(v.s[i])] = <<"t", "r", "u", "e">>
     ELSE FALSE

\* get_instrument_detail after its guard call (lines 745-768)
GetInstrumentDetailResult(code, kind) ==
  IF kind = "raise" THEN [error |-> "exception"]
  ELSE IF kind = "null" THEN [message |-> "not_found", code |-> code]
  ELSE LET d == DetailOf(code)
       IN [detail |->
             [i \in 1..Len(d) |->
                [k |-> d[i].k,
                 v |-> IF d[i].v.t \in {"str", "int", "bool"}
                         THEN d[i].v ELSE StrV(<<"repr">>)]]]

\* variant: the length of the code is not looked at
LooksLikeCodeDotOnly(code) == \E i \in 1..Len(code) : code[i] = Dot

\* `"." in code and len(code) >= 6`
LooksLikeCode(code) == (\E i \in 1..Len(code) : code[i] = Dot) /\ Len(code) >= 6

RECURSIVE ValidCodes(_)
ValidCodes(l) ==
  IF l = <<>> THEN <<>>
  ELSE IF LooksLikeCode(Head(l)) THEN <<Head(l)>> \o ValidCodes(Tail(l))
  ELSE ValidCodes(Tail(l))

OHLCV == << <<"o", "p", "e", "n">>, <<"h", "i", "g", "h">>, <<"l", "o", "w">>,
            <<"c", "l", "o", "s", "e">>, <<"v", "o", "l", "u", "m", "e">> >>

\* variant: the history handler drops malformed codes as the other two do
QueryCodesFilterAll(name, codes) == ValidCodes(SplitCodes(codes))

\* the codes a market-data handler hands to the backend
QueryCodes(name, codes) ==
  IF name = "get_history_market_data" THEN SplitCodes(codes)
  ELSE ValidCodes(SplitCodes(codes))

\* the fields it hands to the backend
QueryFields(name, fields) ==
  IF name = "get_latest_market_data" THEN OHLCV
  ELSE IF SplitCodes(fields) = <<>> THEN OHLCV ELSE SplitCodes(fields)

\* the get_market_data invocation of a market-data handler: positional
\* fields and codes, and the keyword arguments it passes (<<>> : not passed)
MarketDataQuery(name, a) ==
  [ fields |-> QueryFields(name, Effective(a, "fields").s),
    codes |-> QueryCodes(name, a.kv["codes"].s),
    period |-> Effective(a, "period").s,
    start_time |-> IF name = "get_latest_market_data" THEN <<>>
                   ELSE <<Effective(a, "start_date").s>>,
    end_time |-> IF name = "get_latest_market_data" THEN <<>>
                 ELSE <<Effective(a, "end_date").s>>,
    count |-> CASE name = "get_latest_market_data" -> <<1>>
                [] name = "get_full_market_data" -> <<-1>>
                [] OTHER -> <<>> ]

\* the three market-data handlers after their guard call
\* (lines 794-840, 862-908, 933-989)
MarketDataResult(name, a, kind) ==
  LET q == MarketDataQuery(name, a)
  IN IF q.codes = <<>> THEN [error |-> "no_valid_codes"]
     ELSE IF kind = "raise" THEN [error |-> "failed_with_exception"]
     ELSE IF kind = "null" THEN [error |-> "failed"]
     ELSE [data |-> [codes |-> q.codes, fields |-> q.fields]]

\* whether the handler reaches the backend
MarketDataCalls(name, a) == MarketDataQuery(name, a).codes # <<>>

\* ------------------------------------------------------------------- panels

FloatV(s) == [t |-> "float", s |-> s, n |-> 0]

IsDigits(s) == s # <<>> /\ \A i \in 1..Len(s) : s[i] \in Digits

DigitValue(c) == CHOOSE d \in 0..9 : DigitChar[d + 1] = c

\* int(s) for a str of digits
RECURSIVE ParseNat(_)
ParseNat(s) ==
  IF s = <<>> THEN 0
  ELSE 10 * ParseNat(SubSeq(s, 1, Len(s) - 1)) + DigitValue(s[Len(s)])

\* create_chart_panel, lines 1031-1032: a token of digits becomes an int
ChartParam(tok) == IF IsDigits(tok) THEN IntV(ParseNat(tok)) ELSE StrV(tok)

ChartParams(params) ==
  LET toks == SplitCodes(params)
  IN [i \in 1..Len(toks) |-> ChartParam(toks[i])]

Triple(n1, n2, n3, ps) ==
  IF Len(ps) >= 3
    THEN << [k |-> n1, v |-> ps[1]], [k |-> n2, v |-> ps[2]],
            [k |-> n3, v |-> ps[3]] >>
    ELSE <<>>

\* create_chart_panel, lines 1035-1060: the one indicator configuration
ChartConfig(indicators, ps) ==
  [ name |-> indicators,
    params |->
      IF indicators = <<"m", "a">>
        THEN [i \in 1..Len(ps) |-> [k |-> <<"n">> \o IntToStr(i), v |-> ps[i]]]
      ELSE IF indicators = <<"m", "a", "c", "d">>
        THEN Triple(<<"s", "h", "o", "r", "t">>, <<"l", "o", "n", "g">>,
                    <<"m", "i", "d">>, ps)
      ELSE IF indicators = <<"k", "d", "j">>
        THEN Triple(<<"n">>, <<"m", "1">>, <<"m", "2">>, ps)
      ELSE <<>> ]

\* int(v.strip()) succeeds: an optional sign and digits
IsIntLiteral(s) ==
  IF s # <<>> /\ s[1] \in {"+", "-"} THEN IsDigits(Tail(s)) ELSE IsDigits(s)

IntLiteral(s) ==
  IF s[1] = "-" THEN 0 - ParseNat(Tail(s))
  ELSE IF s[1] = "+" THEN ParseNat(Tail(s)) ELSE ParseNat(s)

\* float(v.strip()) succeeds: an optional sign, digits and one dot
IsFloatLiteral(s) ==
  LET body == IF s # <<>> /\ s[1] \in {"+", "-"} THEN Tail(s) ELSE s
      dots == {i \in 1..Len(body) : body[i] = Dot}
  IN /\ Cardinality(dots) = 1
     /\ Len(body) >= 2
     /\ \A i \in 1..Len(body) : body[i] \in Digits \cup {Dot}

\* variant: a token with a '.' is kept as text, never made a float
LayoutValueNoFloat(raw) ==
  LET v == Strip(raw)
  IN IF \E i \in 1..Len(raw) : raw[i] = Dot
       THEN StrV(v)
       ELSE IF IsIntLiteral(v) THEN IntV(IntLiteral(v)) ELSE StrV(v)

\* create_custom_layout, lines 1244-1253: one value token (not blank)
LayoutValue(raw) ==
  LET v == Strip(raw)
  IN IF \E i \in 1..Len(raw) : raw[i] = Dot
       THEN IF IsFloatLiteral(v) THEN FloatV(v) ELSE StrV(v)
       ELSE IF IsIntLiteral(v) THEN IntV(IntLiteral(v)) ELSE StrV(v)

RECURSIVE LayoutValuesOf(_)
LayoutValuesOf(toks) ==
  IF toks = <<>> THEN <<>>
  ELSE IF Strip(Head(toks)) = <<>> THEN LayoutValuesOf(Tail(toks))
  ELSE <<LayoutValue(Head(toks))>> \o LayoutValuesOf(Tail(toks))

LayoutValues(param_values) == LayoutValuesOf(Split(param_values))

\* create_custom_layout, lines 1240 and 1256-1262
LayoutConfig(indicator_name, param_names, param_values) ==
  LET names == SplitCodes(param_names)
      values == LayoutValues(param_values)
  IN [ name |-> indicator_name,
       params |-> [i \in 1..Min(Len(names), Len(values)) |->
                     [k |-> names[i], v |-> values[i]]] ]

\* the indicator configuration of a panel call
PanelConfig(name, a) ==
  IF name = "create_chart_panel"
    THEN ChartConfig(Effective(a, "indicators").s,
                     ChartParams(Effective(a, "params").s))
    ELSE LayoutConfig(Effective(a, "indicator_name").s,
                      Effective(a, "param_names").s,
                      Effective(a, "param_values").s)

\* variant: a stock whose UIPanel construction raises gets no descriptor
BuildPanelsDropFailed(stocks, period, config, bad) ==
  LET kept == SelectSeq([i \in 1..Len(stocks) |-> i], LAMBDA i : i \notin bad)
  IN [i \in 1..Len(kept) |->
        [ stock |-> stocks[kept[i]], period |-> period, figures |-> <<config>>,
          type |-> "UIPanel" ]]

\* lines 1069-1097: one descriptor per stock; a UIPanel whose construction
\* raises (the stocks at the positions in bad) is replaced by a dict
BuildPanels(stocks, period, config, bad) ==
  [i \in 1..Len(stocks) |->
     [ stock |-> stocks[i], period |-> period, figures |-> <<config>>,
       type |-> IF i \in bad THEN "dict" ELSE "UIPanel" ]]

PanelInfo(stocks, bad, config) ==
  [i \in 1..Len(stocks) |->
     [ stock |-> stocks[i],
       figures |-> config,
       panel_type |-> IF i \in bad THEN "dict" ELSE "UIPanel",
       error |-> i \in bad ]]

PrimaryMethod == "apply_ui_panel_control"

\* possible_methods, line 1124
PossibleMethods ==
  <<"apply_panel_control", "create_panel", "show_panel", "display_panel">>

Fallbacks == {PossibleMethods[i] : i \in 1..Len(PossibleMethods)}

\* What the backend object offers during one panel invocation: for the
\* primary method, each fallback name and refresh_ui, whether the attribute
\* is absent, or present and returning ("ok") or raising ("raise").
MethodStates == {"absent", "ok", "raise"}

\* variant: the loop ends at the first name present, also when it raises
RECURSIVE ProbeFromStopAtPresent(_, _)
ProbeFromStopAtPresent(fb, i) ==
  IF i > Len(PossibleMethods) THEN <<>>
  ELSE IF fb[PossibleMethods[i]] = "absent" THEN ProbeFromStopAtPresent(fb, i + 1)
  ELSE <<PossibleMethods[i]>>

\* variant: the loop has no `break`, every name present is invoked
RECURSIVE ProbeFromNoBreak(_, _)
ProbeFromNoBreak(fb, i) ==
  IF i > Len(PossibleMethods) THEN <<>>
  ELSE IF fb[PossibleMethods[i]] = "absent" THEN ProbeFromNoBreak(fb, i + 1)
  ELSE <<PossibleMethods[i]>> \o ProbeFromNoBreak(fb, i + 1)

\* the loop over possible_methods, lines 1125-1146: from position i on,
\* the fallback methods invoked, in order; the loop ends at the first one
\* that returns
RECURSIVE ProbeFrom(_, _)
ProbeFrom(fb, i) ==
  IF i > Len(PossibleMethods) THEN <<>>
  ELSE IF fb[PossibleMethods[i]] = "absent" THEN ProbeFrom(fb, i + 1)
  ELSE IF fb[PossibleMethods[i]] = "ok" THEN <<PossibleMethods[i]>>
  ELSE <<PossibleMethods[i]>> \o ProbeFrom(fb, i + 1)

\* variant: a primary method that raises is followed by the fallback names
ApplyInvokedFallsBack(env) ==
  CASE env.primary = "absent" -> ProbeFrom(env.fb, 1)
    [] env.primary = "ok" -> <<PrimaryMethod>>
    [] OTHER -> <<PrimaryMethod>> \o ProbeFrom(env.fb, 1)

\* the panel methods one invocation calls, in order (lines 1104-1146)
ApplyInvoked(env) ==
  IF env.primary # "absent" THEN <<PrimaryMethod>> ELSE ProbeFrom(env.fb, 1)

\* the loop ended by `break`
LoopBroke(env) ==
  LET inv == ProbeFrom(env.fb, 1)
  IN inv # <<>> /\ env.fb[inv[Len(inv)]] = "ok"

\* variant: no_method_found is recorded only after a fallback raised
NoMethodFoundOnlyAfterError(env) ==
  /\ env.primary = "absent"
  /\ ~LoopBroke(env)
  /\ \E m \in Fallbacks : env.fb[m] # "absent"

\* variant: no_method_found is recorded only when no fallback name is present
NoMethodFoundNonePresent(env) ==
  /\ env.primary = "absent"
  /\ \A m \in Fallbacks : env.fb[m] = "absent"

\* the for-else of the loop: no_method_found is recorded when the loop ends
\* without `break`
NoMethodFound(env) == env.primary = "absent" /\ ~LoopBroke(env)

MRKeys == {PrimaryMethod, "no_method_found", "refresh_ui"} \cup Fallbacks

\* variant: a raising primary method is recorded like a returning one
PrimaryEntryHidesError(state) ==
  IF state = "absent" THEN "exists_false" ELSE "result"

\* the entry recorded for the primary method (lines 1104-1121)
PrimaryEntry(state) ==
  CASE state = "absent" -> "exists_false"
    [] state = "ok" -> "result"
    [] OTHER -> "error"

\* method_results at the end of the invocation (lines 1102-1156); "none":
\* the key is not in the mapping
MethodResults(env) ==
  [k \in MRKeys |->
     CASE k = PrimaryMethod -> PrimaryEntry(env.primary)
       [] k = "no_method_found" ->
            IF NoMethodFound(env) THEN "true" ELSE "none"
       [] k = "refresh_ui" ->
            (CASE env.refresh = "absent" -> "none"
               [] env.refresh = "ok" -> "called"
               [] OTHER -> "error")
       [] OTHER ->
            IF env.primary # "absent"
                 \/ ~\E i \in 1..Len(ApplyInvoked(env)) : ApplyInvoked(env)[i] = k
              THEN "none"
            ELSE IF env.fb[k] = "ok" THEN "result" ELSE "error"]

\* time.sleep(0.5), in milliseconds
SettlePauseMs == 500

\* variant: a refresh_ui that raises ends the invocation before the pause
PanelLogNoPauseAfterRaise(env, panels) ==
  LET inv == ApplyInvoked(env)
  IN [i \in 1..Len(inv) |-> [m |-> inv[i], a |-> panels]]
       \o (IF env.refresh = "absent" THEN <<>>
           ELSE <<[m |-> "refresh_ui", a |-> <<>>]>>)
       \o (IF env.refresh = "raise" THEN <<>>
           ELSE <<[m |-> "time.sleep", a |-> SettlePauseMs]>>)

\* the backend invocations of the apply and refresh steps, in order, and the
\* pause that follows them (lines 1104-1159)
PanelLog(env, panels) ==
  LET inv == ApplyInvoked(env)
  IN [i \in 1..Len(inv) |-> [m |-> inv[i], a |-> panels]]
       \o (IF env.refresh = "absent" THEN <<>>
           ELSE <<[m |-> "refresh_ui", a |-> <<>>]>>)
       \o <<[m |-> "time.sleep", a |-> SettlePauseMs]>>

\* variant: success is reported only when a panel-apply method returned or
\* none was found
ResultSuccessNeedsApplied(env) ==
  env.primary = "ok" \/ LoopBroke(env) \/ NoMethodFound(env)

\* the `"success": True` of the result (lines 1163, 1365): a literal, whatever
\* method_results holds
ResultSuccess(env) == TRUE

\* create_chart_panel / create_custom_layout after their guard call: the
\* returned payload (lines 1025-1176 and 1235-1379)
PanelPayload(name, a, env, bad) ==
  LET stocks == SplitCodes(a.kv["codes"].s)
      period == Effective(a, "period").s
      config == PanelConfig(name, a)
  IN IF stocks = <<>>
       THEN [error |-> "no_valid_codes", env_info |-> TRUE]
       ELSE [ success |-> ResultSuccess(env),
              count |-> Len(stocks),
              details |-> [ stocks |-> stocks, period |-> period,
                            indicator |-> config.name ],
              debug_info |-> [ panel_info |-> PanelInfo(stocks, bad, config),
                               method_results |-> MethodResults(env) ] ]

\* the descriptors of the call, and its backend invocations
PanelsOf(name, a, bad) ==
  BuildPanels(SplitCodes(a.kv["codes"].s), Effective(a, "period").s,
              PanelConfig(name, a), bad)

PanelCalls(name, a, env, bad) ==
  IF SplitCodes(a.kv["codes"].s) = <<>> THEN <<>>
  ELSE PanelLog(env, PanelsOf(name, a, bad))

\* variant: the list is joined without the [:5] slice
DefaultCodesNoSlice(stock_list) ==
  IF Len(stock_list) > 0 THEN Join(stock_list) ELSE FallbackCodes

\* handle_call_tool, lines 573-579: the codes filled in for an omitted codes
\* argument, from what get_stock_list returned.  get_stock_list returns a
\* list in every case, so the isinstance test holds and nothing raises.
DefaultCodes(stock_list) ==
  IF Len(stock_list) > 0
    THEN Join(SubSeq(stock_list, 1, Min(PanelDefaultCount, Len(stock_list))))
    ELSE FallbackCodes

\* ------------------------------------------------------------------ inputs

BAD == <<"B", "A", "D">>
SZ == <<"S", "Z">>
\* a code with a '.' and fewer than 6 characters
ShortCode == <<"A", ".", "B">>
TrueStr == <<"T", "r", "u", "e">>

UnknownTool == "no_such_tool"
AllNames == Registered \cup {UnknownTool}

\* values tried for the key a tool checks or auto-fills
PrimaryValues(name) ==
  CASE name = "get_trading_dates" -> {Absent, StrV(SZ), ListV(1)}
    [] name = "get_stock_list" -> {Absent, StrV(DefaultSector), ListV(1)}
    [] name = "get_instrument_detail" ->
         {Absent, StrV(<<>>), StrV(PingAn), ListV(1)}
    [] name \in MarketDataTools ->
         {Absent, StrV(<<>>), StrV(PingAn \o <<Comma>> \o BAD), StrV(BAD),
          StrV(ShortCode \o <<Comma, Space>> \o PingAn \o <<Space>>), ListV(1)}
    [] name \in PanelTools ->
         {Absent, StrV(<<>>), ListV(0), ListV(1), StrV(PingAn), StrV(<<Space, Comma>>)}
    [] OTHER -> {Absent}

PrimaryKey(name) ==
  CASE name = "get_trading_dates" -> "market"
    [] name = "get_stock_list" -> "sector"
    [] name = "get_instrument_detail" -> "code"
    [] OTHER -> "codes"

SecondaryKey(name) ==
  IF name = "get_instrument_detail" THEN "iscomplete" ELSE "period"

SecondaryValues(name) ==
  CASE name = "get_instrument_detail" -> {Absent, StrV(TrueStr)}
    [] name \in MarketDataTools \cup PanelTools -> {Absent, ListV(1)}
    [] OTHER -> {Absent}

\* parameter names and values tried for create_custom_layout, next to the
\* defaults "n1,n2,n3" and "5,10,20": "5,abc,3.5"; " 7 , 2.5" (fewer values
\* than names); "-3,1.2.3,x.y"; "5,,20" (an empty value); and the one name
\* "a" (fewer names than values)
LayoutParamChoices ==
  { [names |-> Absent, values |-> StrV(<<"5", ",", ",", "2", "0">>)] } \cup
  { [names |-> Absent,
     values |-> StrV(<<"5", ",", "a", "b", "c", ",", "3", ".", "5">>)],
    [names |-> Absent,
     values |-> StrV(<<" ", "7", " ", ",", " ", "2", ".", "5">>)],
    [names |-> Absent,
     values |-> StrV(<<"-", "3", ",", "1", ".", "2", ".", "3", ",", "x", ".", "y">>)],
    [names |-> StrV(<<"a">>), values |-> Absent] }

\* the arguments tried for a tool
ArgChoices(name) ==
  {NoneArgs}
    \cup { With(With(EmptyArgs, PrimaryKey(name), v), SecondaryKey(name), w) :
              v \in PrimaryValues(name), w \in SecondaryValues(name) }
    \cup (IF name = "create_custom_layout"
            THEN { With(With(With(EmptyArgs, "codes", StrV(PingAn)),
                             "param_names", c.names), "param_values", c.values) :
                     c \in LayoutParamChoices }
            ELSE {})

AllEnvs ==
  [ primary : MethodStates, fb : [Fallbacks -> MethodStates],
    refresh : MethodStates, uipanel : {"ok", "raise_first"} ]

\* the fallback names are all in the same state
Uniform(fb) == \A m1, m2 \in Fallbacks : fb[m1] = fb[m2]

\* The backend surfaces tried: every combination of the states of the four
\* fallback names while the primary method is absent, refresh_ui is absent
\* and no UIPanel construction fails; the states of the primary method and of
\* refresh_ui and a failing UIPanel construction with the fallback names all
\* in the same state.  (Descriptor construction, the apply step and the
\* refresh step pass no data to one another but the descriptors.)
Envs ==
  { e \in AllEnvs :
      Uniform(e.fb)
        \/ (e.primary = "absent" /\ e.refresh = "absent" /\ e.uipanel = "ok") }

\* the surfaces tried in one panel invocation: all of them when the caller
\* gave the codes, those with the fallback names in one state when the codes
\* were filled in by the lookup (the lookup and the apply step share nothing
\* but the stocks)
PanelEnvs(auto) == IF auto THEN {e \in Envs : Uniform(e.fb)} ELSE Envs

NoEnv ==
  [ primary |-> "unused", fb |-> [m \in Fallbacks |-> "unused"],
    refresh |-> "unused", uipanel |-> "unused" ]

\* the positions at which UIPanel(...) raises, for n stocks
UIPanelFailures(env, n) == IF env.uipanel = "ok" \/ n = 0 THEN {} ELSE {1}

\* ------------------------------------------------------------------- state

VARIABLES
  xtdc_initialized,  \* the module-level flag of the startup guard
  call,              \* per task: the tool call it is executing; lk is what
                     \* the call's stock-list or trading-date method did,
                     \* log its backend invocations in order, starts the
                     \* outcomes of its start_xtdata invocations in order,
                     \* guards the times it has entered the startup guard
  running,           \* the task that holds the event loop, 0 when none does
  hasStart,          \* whether the backend object has a start_xtdata
  startLog,          \* outcomes of the start_xtdata invocations, in order
  nCalls             \* tool calls issued so far

vars == <<xtdc_initialized, call, running, hasStart, startLog, nCalls>>

NoRes == [kind |-> "none", val |-> <<>>]
NoLookup == [kind |-> "unused", list |-> <<>>, msg |-> <<>>]

IdleCall ==
  [ pc |-> "idle", name |-> "", args |-> NoneArgs, ret |-> "",
    auto |-> FALSE, lk |-> NoLookup, env |-> NoEnv, log |-> <<>>,
    starts |-> <<>>, guards |-> 0, res |-> NoRes ]

Init ==
  /\ xtdc_initialized = FALSE
  /\ call = [t \in Tasks |-> IdleCall]
  /\ running = 0
  /\ hasStart \in BOOLEAN
  /\ startLog = <<>>
  /\ nCalls = 0

\* ---------------------------------------------------------------- scheduler

\* variant: start_xtdata is awaited, the guard suspends after it
SuspendingAwaitsInGuard == {"guard_set"}

\* The positions of a call at which it gives up the event loop.  Every await
\* of handle_call_tool awaits one of the handler coroutines, and no handler
\* (nor the guard, a plain function) contains an await or any other
\* suspending primitive: an awaited coroutine that never suspends runs through
\* in the caller's turn.  time.sleep blocks the loop, it does not yield it.
SuspendingAwaits == {}

\* who holds the loop after task t moved to position pc
After(t, pc) == IF pc \in SuspendingAwaits THEN 0 ELSE t

\* task t may take a step: it holds the loop, or nobody does
MayRun(t) == running = t \/ running = 0

\* A request arrives and its task is created; the loop is free at that time.
Issue(t) ==
  /\ running = 0
  /\ call[t].pc = "idle"
  /\ nCalls < MaxCalls
  /\ nCalls' = nCalls + 1
  /\ call' = [call EXCEPT ![t].pc = "pending"]
  /\ UNCHANGED <<xtdc_initialized, running, hasStart, startLog>>

\* The response of a finished call is handed to the transport; its task ends.
Respond(t) ==
  /\ MayRun(t)
  /\ call[t].pc \in {"done", "listed"}
  /\ call' = [call EXCEPT ![t] = IdleCall]
  /\ running' = 0
  /\ UNCHANGED <<xtdc_initialized, hasStart, startLog, nCalls>>

\* -------------------------------------------------------------------- guard

\* variant: the guard does not look at the flag
GuardNeedsStartAlways(flag) == TRUE

\* `if not xtdc_initialized`
GuardNeedsStart(flag) == ~flag

\* ensure_xtdc_initialized, line 131: read of the flag
GuardCheck(t) ==
  /\ MayRun(t)
  /\ call[t].pc = "guard_check"
  /\ LET pc2 == IF GuardNeedsStart(xtdc_initialized)
                  THEN "guard_start" ELSE call[t].ret
     IN /\ call' = [call EXCEPT ![t].pc = pc2, ![t].guards = @ + 1]
        /\ running' = After(t, pc2)
  /\ UNCHANGED <<xtdc_initialized, hasStart, startLog, nCalls>>

\* variant: a start that raised ends the call, the handler does not go on
GuardAfterStartBlocks(outcome) == IF outcome = "ok" THEN "guard_set" ELSE "done"

\* what the guard does after a start_xtdata that ended with `outcome`
GuardAfterStart(outcome) == IF outcome = "ok" THEN "guard_set" ELSE "return"

\* lines 132-135 and 138-140: the start, if the backend has one
GuardStart(t) ==
  /\ MayRun(t)
  /\ call[t].pc = "guard_start"
  /\ \E outcome \in {"ok", "raise"} :
       LET has == hasStart
           nxt == IF has THEN GuardAfterStart(outcome) ELSE "guard_set"
           pc2 == IF nxt = "return" THEN call[t].ret ELSE nxt
       IN /\ startLog' = IF has THEN Append(startLog, outcome) ELSE startLog
          /\ call' = [call EXCEPT
               ![t].pc = pc2,
               ![t].starts = IF has THEN Append(@, outcome) ELSE @,
               ![t].log = IF has
                            THEN Append(@, [m |-> "start_xtdata", a |-> <<>>])
                            ELSE @]
          /\ running' = After(t, pc2)
  /\ UNCHANGED <<xtdc_initialized, hasStart, nCalls>>

\* line 136: write of the flag
GuardSet(t) ==
  /\ MayRun(t)
  /\ call[t].pc = "guard_set"
  /\ xtdc_initialized' = TRUE
  /\ call' = [call EXCEPT ![t].pc = call[t].ret]
  /\ running' = After(t, call[t].ret)
  /\ UNCHANGED <<hasStart, startLog, nCalls>>

\* ----------------------------------------------------------------- dispatch

\* variant: the stock-list lookup of the panel tools asks the backend without
\* entering the guard
FirstStepLookupUnguarded(next) ==
  CASE next \in {"raise", "content"} -> "done"
    [] next = "lookup" -> "lookup"
    [] OTHER -> "guard_check"

\* Where a call is after the dispatcher's own checks: it has ended, or it is
\* at the first statement of the coroutine it awaits (get_stock_list for the
\* lookup, else the tool's handler), which is the call of the guard.
FirstStep(next) ==
  IF next \in {"raise", "content"} THEN "done" ELSE "guard_check"

\* handle_call_tool up to the first handler it awaits (lines 472-638)
Dispatch(t) ==
  /\ MayRun(t)
  /\ call[t].pc = "pending"
  /\ \E name \in AllNames :
       \E a \in ArgChoices(name) :
         LET o == DispatchOutcome(name, a)
             pc2 == FirstStep(o.next)
         IN /\ call' = [call EXCEPT ![t] =
                 [ pc |-> pc2, name |-> name, args |-> a,
                   ret |-> IF o.next = "lookup" THEN "lookup" ELSE "handler",
                   auto |-> o.next = "lookup", lk |-> NoLookup,
                   env |-> NoEnv, log |-> <<>>, starts |-> <<>>,
                   guards |-> 0,
                   res |-> IF pc2 = "done"
                             THEN [kind |-> o.next, val |-> o.val] ELSE NoRes ]]
            /\ running' = After(t, pc2)
  /\ UNCHANGED <<xtdc_initialized, hasStart, startLog, nCalls>>

\* handle_list_tools (lines 239-450): the request is a tools/list request
HandleListTools(t) ==
  /\ MayRun(t)
  /\ call[t].pc = "pending"
  /\ call' = [call EXCEPT ![t].pc = "listed",
                          ![t].res = [kind |-> "content", val |-> ToolListing]]
  /\ running' = After(t, "listed")
  /\ UNCHANGED <<xtdc_initialized, hasStart, startLog, nCalls>>

\* a handler returns: handle_call_tool wraps the payload into content
Finish(t, val, entries) ==
  /\ call' = [call EXCEPT ![t].pc = "done",
                          ![t].res = [kind |-> "content", val |-> val],
                          ![t].log = @ \o entries]
  /\ running' = After(t, "done")
  /\ UNCHANGED <<xtdc_initialized, hasStart, startLog, nCalls>>

\* the same, for a handler whose one backend method ended with outcome o
FinishBackend(t, val, entries, o) ==
  /\ call' = [call EXCEPT ![t].pc = "done",
                          ![t].res = [kind |-> "content", val |-> val],
                          ![t].log = @ \o entries,
                          ![t].lk = o]
  /\ running' = After(t, "done")
  /\ UNCHANGED <<xtdc_initialized, hasStart, startLog, nCalls>>

AtHandler(t, name) ==
  MayRun(t) /\ call[t].pc = "handler" /\ call[t].name = name

\* the stock-list lookup of a panel tool called without codes (lines 568-582
\* and 605-619), then the construction of the input model
Lookup(t) ==
  /\ MayRun(t)
  /\ call[t].pc = "lookup"
  /\ \E o \in StockListOutcomes :
       LET list == GetStockListResult(DefaultSector, o)
           a2 == With(call[t].args, "codes", StrV(DefaultCodes(list)))
           ok == ValidModel(call[t].name, a2)
           pc2 == IF ok THEN "guard_check" ELSE "done"
       IN /\ call' = [call EXCEPT
               ![t].pc = pc2, ![t].ret = "handler", ![t].args = a2,
               ![t].lk = o,
               ![t].log = Append(@, [m |-> "get_stock_list_in_sector",
                                     a |-> DefaultSector]),
               ![t].res = IF ok THEN NoRes
                          ELSE [kind |-> "raise", val |-> "ValidationError"]]
          /\ running' = After(t, pc2)
  /\ UNCHANGED <<xtdc_initialized, hasStart, startLog, nCalls>>

GetTradingDates(t) ==
  /\ AtHandler(t, "get_trading_dates")
  /\ \E o \in DateOutcomes :
       FinishBackend(t, GetTradingDatesResult(o),
              <<[m |-> "get_trading_dates", a |-> Effective(call[t].args, "market").s]>>,
              o)

GetStockList(t) ==
  /\ AtHandler(t, "get_stock_list")
  /\ \E o \in HandlerStockListOutcomes :
       FinishBackend(t, GetStockListResult(Effective(call[t].args, "sector").s, o),
              <<[m |-> "get_stock_list_in_sector",
                 a |-> Effective(call[t].args, "sector").s]>>,
              o)

GetInstrumentDetail(t) ==
  /\ AtHandler(t, "get_instrument_detail")
  /\ \E kind \in SimpleOutcomes :
       Finish(t, GetInstrumentDetailResult(call[t].args.kv["code"].s, kind),
              <<[m |-> "get_instrument_detail",
                 a |-> [code |-> call[t].args.kv["code"].s,
                        iscomplete |-> IsComplete(call[t].args)]]>>)

MarketDataStep(t, name) ==
  /\ AtHandler(t, name)
  /\ \E kind \in SimpleOutcomes :
       Finish(t, MarketDataResult(name, call[t].args, kind),
              IF MarketDataCalls(name, call[t].args)
                THEN <<[m |-> "get_market_data",
                        a |-> MarketDataQuery(name, call[t].args)]>>
                ELSE <<>>)

GetHistoryMarketData(t) == MarketDataStep(t, "get_history_market_data")
GetLatestMarketData(t) == MarketDataStep(t, "get_latest_market_data")
GetFullMarketData(t) == MarketDataStep(t, "get_full_market_data")

PanelStep(t, name) ==
  /\ AtHandler(t, name)
  /\ \E env \in PanelEnvs(call[t].auto) :
       LET bad == UIPanelFailures(env, Len(SplitCodes(call[t].args.kv["codes"].s)))
       IN /\ call' = [call EXCEPT
               ![t].pc = "done", ![t].env = env,
               ![t].res = [kind |-> "content",
                           val |-> PanelPayload(name, call[t].args, env, bad)],
               ![t].log = @ \o PanelCalls(name, call[t].args, env, bad)]
          /\ running' = After(t, "done")
  /\ UNCHANGED <<xtdc_initialized, hasStart, startLog, nCalls>>

CreateChartPanel(t) == PanelStep(t, "create_chart_panel")
CreateCustomLayout(t) == PanelStep(t, "create_custom_layout")

Next ==
  \E t \in Tasks :
    \/ Issue(t)
    \/ HandleListTools(t)
    \/ Dispatch(t)
    \/ GuardCheck(t)
    \/ GuardStart(t)
    \/ GuardSet(t)
    \/ Lookup(t)
    \/ GetTradingDates(t)
    \/ GetStockList(t)
    \/ GetInstrumentDetail(t)
    \/ GetHistoryMarketData(t)
    \/ GetLatestMarketData(t)
    \/ GetFullMarketData(t)
    \/ CreateChartPanel(t)
    \/ CreateCustomLayout(t)
    \/ Respond(t)

Spec == Init /\ [][Next]_vars

\* ------------------------------------------------------------------ workers

\* The guard under workers that are scheduled preemptively (threads): the
\* same statements of ensure_xtdc_initialized, with nothing that keeps
\* another worker from running between two of them.  A worker enters the
\* guard on behalf of some tool call and leaves it when the guard returns.

\* a worker calls ensure_xtdc_initialized()
WorkerEnter(t) ==
  /\ call[t].pc = "idle"
  /\ nCalls < MaxGuardCalls
  /\ nCalls' = nCalls + 1
  /\ call' = [call EXCEPT ![t].pc = "guard_check", ![t].ret = "done"]
  /\ UNCHANGED <<xtdc_initialized, running, hasStart, startLog>>

\* line 131: read of the flag
WorkerCheck(t) ==
  /\ call[t].pc = "guard_check"
  /\ call' = [call EXCEPT
       ![t].pc = IF GuardNeedsStart(xtdc_initialized)
                   THEN "guard_start" ELSE call[t].ret,
       ![t].guards = @ + 1]
  /\ UNCHANGED <<xtdc_initialized, running, hasStart, startLog, nCalls>>

\* lines 132-135 and 138-140: the start, if the backend has one
WorkerStart(t) ==
  /\ call[t].pc = "guard_start"
  /\ \E outcome \in {"ok", "raise"} :
       LET nxt == IF hasStart THEN GuardAfterStart(outcome) ELSE "guard_set"
       IN /\ startLog' = IF hasStart THEN Append(startLog, outcome) ELSE startLog
          /\ call' = [call EXCEPT
               ![t].pc = IF nxt = "return" THEN call[t].ret ELSE nxt,
               ![t].starts = IF hasStart THEN Append(@, outcome) ELSE @,
               ![t].log = IF hasStart
                            THEN Append(@, [m |-> "start_xtdata", a |-> <<>>])
                            ELSE @]
  /\ UNCHANGED <<xtdc_initialized, running, hasStart, nCalls>>

\* line 136: write of the flag
WorkerSet(t) ==
  /\ call[t].pc = "guard_set"
  /\ xtdc_initialized' = TRUE
  /\ call' = [call EXCEPT ![t].pc = call[t].ret]
  /\ UNCHANGED <<running, hasStart, startLog, nCalls>>

\* the guard has returned to the worker's caller
WorkerReturn(t) ==
  /\ call[t].pc = "done"
  /\ call' = [call EXCEPT ![t] = IdleCall]
  /\ UNCHANGED <<xtdc_initialized, running, hasStart, startLog, nCalls>>

NextWorkers ==
  \E t \in Tasks :
    \/ WorkerEnter(t)
    \/ WorkerCheck(t)
    \/ WorkerStart(t)
    \/ WorkerSet(t)
    \/ WorkerReturn(t)

SpecWorkers == Init /\ [][NextWorkers]_vars

\* ------------------------------------------------------------------- claims

Done(t) == call[t].pc = "done"

\* the call of task t has returned content holding a panel success payload
PanelSuccess(t) ==
  /\ Done(t)
  /\ call[t].name \in PanelTools
  /\ call[t].res.kind = "content"
  /\ "success" \in DOMAIN call[t].res.val

\* number of start_xtdata invocations that returned
OkCount(log) == Cardinality({i \in 1..Len(log) : log[i] = "ok"})

C2_RegisteredNeverRaises ==
  \A t \in Tasks :
    Done(t) =>
      IF call[t].name \in Registered
        THEN call[t].res.kind = "content"
        ELSE call[t].res.kind = "raise" /\ call[t].res.val = UnknownToolError

\* the required field of the call is absent, or present and the empty string
RequiredMissingOrEmpty(t) ==
  /\ CheckedKey(call[t].name) # ""
  /\ \/ ArgsFalsy(call[t].args)
     \/ ~HasKey(call[t].args, CheckedKey(call[t].name))
     \/ call[t].args.kv[CheckedKey(call[t].name)] = StrV(<<>>)

\* C3: for get_instrument_detail and the three market-data tools, a call
\* whose required field is absent or empty returns the missing-parameter
\* text naming the field, and invokes no backend operation (neither
\* start_xtdata nor a data method).
C3_MissingOrEmptyShortCircuits ==
  \A t \in Tasks :
    (Done(t) /\ RequiredMissingOrEmpty(t)) =>
      /\ call[t].res.kind = "content"
      /\ DOMAIN call[t].res.val = {"missing"}
      /\ call[t].res.val.missing = CheckedKey(call[t].name)
      /\ call[t].log = <<>>

\* C4: a panel tool called without codes whose stock-list lookup raises
\* builds its panels for exactly the two codes of the literal.
C4_LookupRaiseFallsBackToLiteral ==
  \A t \in Tasks :
    (PanelSuccess(t) /\ call[t].auto /\ call[t].lk.kind = "raise") =>
      call[t].res.val.details.stocks = FallbackStocks

\* C5: a panel tool called without codes whose backend returns no stocks
\* (an empty list or None) builds its panels for the two codes of the literal.
C5_EmptyLookupFallsBackToLiteral ==
  \A t \in Tasks :
    ( /\ PanelSuccess(t)
      /\ call[t].auto
      /\ \/ call[t].lk.kind = "null"
         \/ call[t].lk.kind = "ok" /\ call[t].lk.list = <<>> ) =>
      call[t].res.val.details.stocks = FallbackStocks

PanelApplyMethods == {"apply_ui_panel_control", "apply_panel_control",
                      "create_panel", "show_panel", "display_panel"}

\* method m was invoked in the call of task t with one descriptor per stock
\* of the payload, in the order of the stocks
InvokedWithPanels(t, m) ==
  \E i \in 1..Len(call[t].log) :
    /\ call[t].log[i].m = m
    /\ Len(call[t].log[i].a) = Len(call[t].res.val.details.stocks)
    /\ \A j \in 1..Len(call[t].log[i].a) :
         call[t].log[i].a[j].stock = call[t].res.val.details.stocks[j]

InvokedAtAll(t, m) == \E i \in 1..Len(call[t].log) : call[t].log[i].m = m

\* the call of task t is a panel invocation that got to its apply step
ReachedApply(t) ==
  /\ Done(t)
  /\ call[t].name \in PanelTools
  /\ call[t].env.primary # "unused"
  /\ SplitCodes(call[t].args.kv["codes"].s) # <<>>

\* C6: create_chart_panel called without codes, the backend stock list
\* holding k >= 1 codes: the panels are built for exactly the first min(k, 5)
\* codes of the list, in the backend's order, and are never more than 5.
C6_FirstFiveOfBackendList ==
  \A t \in Tasks :
    ( /\ Done(t)
      /\ call[t].name = "create_chart_panel"
      /\ call[t].res.kind = "content"
      /\ call[t].auto
      /\ call[t].lk.kind = "ok"
      /\ Len(call[t].lk.list) >= 1 ) =>
      LET k == Len(call[t].lk.list)
          n == IF k < 5 THEN k ELSE 5
          val == call[t].res.val
      IN /\ "success" \in DOMAIN val
         /\ val.details.stocks = SubSeq(call[t].lk.list, 1, n)
         /\ val.count = n
         /\ Len(val.debug_info.panel_info) = n
         /\ \A m \in PanelApplyMethods :
              InvokedAtAll(t, m) => InvokedWithPanels(t, m)

\* a backend list of more than five codes gave five panels
C6_TruncatedWitness ==
  \E t \in Tasks :
    /\ PanelSuccess(t)
    /\ call[t].name = "create_chart_panel"
    /\ call[t].auto
    /\ call[t].lk.kind = "ok"
    /\ Len(call[t].lk.list) > 5
    /\ call[t].res.val.count = 5
    /\ InvokedWithPanels(t, "apply_ui_panel_control")

\* the backend lacks the primary method and has show_panel
ShowPanelCase(t) ==
  /\ ReachedApply(t)
  /\ call[t].res.kind = "content"
  /\ "success" \in DOMAIN call[t].res.val
  /\ call[t].env.primary = "absent"
  /\ call[t].env.fb["show_panel"] # "absent"

ShowPanelRecorded(t) ==
  call[t].res.val.debug_info.method_results["show_panel"] # "none"

\* C7 (as stated): with the primary method absent and show_panel present,
\* show_panel is invoked with the descriptors and recorded in method_results,
\* whatever the other fallback names are and do.
C7_ShowPanelAlwaysInvoked ==
  \A t \in Tasks :
    ShowPanelCase(t) =>
      InvokedWithPanels(t, "show_panel") /\ ShowPanelRecorded(t)

\* a fallback earlier in the order than show_panel returned
EarlierFallbackReturned(t) ==
  \/ call[t].env.fb["apply_panel_control"] = "ok"
  \/ call[t].env.fb["create_panel"] = "ok"

\* C7 (amended): with the primary method absent and show_panel present,
\* show_panel is invoked with the descriptors and recorded under its name
\* unless apply_panel_control or create_panel is present and returns; when
\* one of them returns the loop ends there, and show_panel is neither
\* invoked nor recorded.
C7_ShowPanelInvokedUnlessEarlierReturned ==
  \A t \in Tasks :
    ShowPanelCase(t) =>
      IF EarlierFallbackReturned(t)
        THEN ~InvokedAtAll(t, "show_panel") /\ ~ShowPanelRecorded(t)
        ELSE /\ InvokedWithPanels(t, "show_panel")
             /\ call[t].res.val.debug_info.method_results["show_panel"] =
                  (IF call[t].env.fb["show_panel"] = "ok" THEN "result" ELSE "error")

\* show_panel was invoked after an earlier fallback had raised
C7_ShowPanelAfterRaiseWitness ==
  \E t \in Tasks :
    /\ ShowPanelCase(t)
    /\ call[t].env.fb["apply_panel_control"] = "raise"
    /\ call[t].env.fb["show_panel"] = "ok"
    /\ InvokedWithPanels(t, "show_panel")
    /\ ShowPanelRecorded(t)

NonePresent(t) ==
  /\ call[t].env.primary = "absent"
  /\ \A m \in Fallbacks : call[t].env.fb[m] = "absent"

\* C8: in a panel invocation whose backend has neither the primary method nor
\* any fallback name, no panel method is invoked, method_results records
\* no_method_found, and the result has success = true.
C8_NoMethodStillSuccess ==
  \A t \in Tasks :
    (ReachedApply(t) /\ NonePresent(t)) =>
      /\ call[t].res.kind = "content"
      /\ "success" \in DOMAIN call[t].res.val
      /\ call[t].res.val.success = TRUE
      /\ call[t].res.val.debug_info.method_results["no_method_found"] = "true"
      /\ \A m \in PanelApplyMethods : ~InvokedAtAll(t, m)

C8_NoMethodWitness ==
  \E t \in Tasks :
    /\ ReachedApply(t)
    /\ NonePresent(t)
    /\ call[t].name = "create_custom_layout"
    /\ call[t].res.val.debug_info.method_results["no_method_found"] = "true"

\* a fallback method that the call invoked raised
FallbackRaised(t) ==
  \E m \in Fallbacks : InvokedAtAll(t, m) /\ call[t].env.fb[m] = "raise"

\* an exception was raised in the build, apply or refresh step
RaisedInSteps(t) ==
  \/ call[t].env.uipanel = "raise_first"
  \/ call[t].env.primary = "raise"
  \/ FallbackRaised(t)
  \/ call[t].env.refresh = "raise"

\* C9 (as stated): a panel invocation never throws, and whenever an exception
\* is raised while building the descriptors, applying them or refreshing,
\* the payload is an error payload with an error and a debug_info field.
C9_ExceptionGivesErrorPayload ==
  \A t \in Tasks :
    ReachedApply(t) =>
      /\ call[t].res.kind = "content"
      /\ RaisedInSteps(t) =>
           {"error", "debug_info"} \subseteq DOMAIN call[t].res.val

\* C9 (amended): a panel invocation never throws; an exception raised by a
\* UIPanel construction, by a panel-apply method (primary or fallback) or by
\* refresh_ui is caught at that step and recorded in debug_info (the
\* descriptor's panel_info entry, or method_results under the method's name),
\* and the payload still has success = true and debug_info, and no error
\* field.
C9_ExceptionsRecordedNotFatal ==
  \A t \in Tasks :
    ReachedApply(t) =>
      /\ call[t].res.kind = "content"
      /\ {"success", "debug_info"} \subseteq DOMAIN call[t].res.val
      /\ "error" \notin DOMAIN call[t].res.val
      /\ call[t].res.val.success = TRUE
      /\ LET dbg == call[t].res.val.debug_info
         IN /\ call[t].env.uipanel = "raise_first" =>
                 (dbg.panel_info[1].error /\ dbg.panel_info[1].panel_type = "dict")
            /\ call[t].env.primary = "raise" =>
                 dbg.method_results["apply_ui_panel_control"] = "error"
            /\ \A m \in Fallbacks :
                 (InvokedAtAll(t, m) /\ call[t].env.fb[m] = "raise") =>
                   dbg.method_results[m] = "error"
            /\ call[t].env.refresh = "raise" =>
                 dbg.method_results["refresh_ui"] = "error"

\* the primary method raised and the payload reports success
C9_PrimaryRaisedWitness ==
  \E t \in Tasks :
    /\ ReachedApply(t)
    /\ call[t].env.primary = "raise"
    /\ InvokedAtAll(t, "apply_ui_panel_control")
    /\ call[t].res.val.success = TRUE

\* task t is between the guard's read of the flag and its write
InGuard(t) == call[t].pc \in {"guard_start", "guard_set"}

\* C10: under the cooperative scheduler no step of another tool call falls
\* between a guard's read of the flag and its write, so two pending first
\* calls never both invoke a start_xtdata that returns.
C10_GuardNotInterleaved ==
  [][ /\ \A t, u \in Tasks :
           (t # u /\ InGuard(t)) => call'[u] = call[u]
      /\ OkCount(startLog') <= 1 ]_vars

\* a first call is inside the guard, its start has returned, and a second
\* call is pending
C10_ConcurrentFirstCallsWitness ==
  \E t, u \in Tasks :
    /\ t # u
    /\ call[t].pc = "guard_set"
    /\ call[u].pc = "pending"
    /\ ~xtdc_initialized
    /\ startLog = <<"ok">>

\* C11: with workers that may interleave between the guard's read of the flag
\* and its write, start_xtdata can be invoked twice with both invocations
\* returning.  The second start is made by a worker that read the flag before
\* the first write: once the flag is set and no worker is between its read and
\* its write, start_xtdata is not invoked again, and the starts that return
\* are never more than the workers.
C11_DoubleStartOnlyInRaceWindow ==
  [][ /\ (xtdc_initialized /\ \A t \in Tasks : ~InGuard(t)) =>
           startLog' = startLog
      /\ OkCount(startLog') <= Cardinality(Tasks) ]_vars

\* two invocations of start_xtdata have returned, the second one made by a
\* worker that had read the flag before the first worker set it
C11_DoubleStartWitness ==
  /\ OkCount(startLog) = 2
  /\ xtdc_initialized
  /\ \E t \in Tasks : call[t].pc = "guard_set"

\* the call of task t is a finished call of the tool `name` that returned
ReturnedFrom(t, name) ==
  Done(t) /\ call[t].name = name /\ call[t].res.kind = "content"

\* C12: get_trading_dates returns at most 30 entries whatever the backend
\* does (returns a sequence, an empty one, None, or raises); for a backend
\* sequence of n > 0 dates the output is the formatting, element by element
\* and in the same order, of its last min(n, 30) dates.
C12_LastThirtyDatesFormatted ==
  \A t \in Tasks :
    ReturnedFrom(t, "get_trading_dates") =>
      LET out == call[t].res.val
          src == call[t].lk.list
          n == Len(src)
      IN /\ Len(out) <= 30
         /\ (call[t].lk.kind = "ok" /\ n > 0) =>
              /\ Len(out) = (IF n < 30 THEN n ELSE 30)
              /\ \A i \in 1..Len(out) :
                   out[i] = FormatDate(src[n - Len(out) + i])

\* the backend returned 31 dates and the oldest one was dropped
C12_TruncatedWitness ==
  \E t \in Tasks :
    /\ ReturnedFrom(t, "get_trading_dates")
    /\ call[t].lk.kind = "ok"
    /\ Len(call[t].lk.list) = 31
    /\ Len(call[t].res.val) = 30
    /\ call[t].res.val[1] = <<"2", "0", "2", "3", "-", "0", "1", "-", "0", "2">>
    /\ call[t].res.val[30] = <<"2", "0", "2", "3", "-", "0", "1", "-", "3", "1">>

\* C13: get_stock_list returns at most 50 entries and never an empty
\* sequence, whatever the backend does: a backend list of n > 0 codes gives its
\* first min(n, 50) codes in order, an empty list or None gives exactly one
\* descriptive message.
C13_FirstFiftyNeverEmpty ==
  \A t \in Tasks :
    ReturnedFrom(t, "get_stock_list") =>
      LET out == call[t].res.val
          src == call[t].lk.list
          n == Len(src)
      IN /\ Len(out) >= 1
         /\ Len(out) <= 50
         /\ (call[t].lk.kind = "ok" /\ n > 0) =>
              out = SubSeq(src, 1, IF n < 50 THEN n ELSE 50)
         /\ (call[t].lk.kind = "null" \/ (call[t].lk.kind = "ok" /\ n = 0)) =>
              out = <<NotFoundSectorMsg(Effective(call[t].args, "sector").s)>>

\* the backend returned 51 codes and the tool returned the first 50
C13_TruncatedWitness ==
  \E t \in Tasks :
    /\ ReturnedFrom(t, "get_stock_list")
    /\ call[t].lk.kind = "ok"
    /\ Len(call[t].lk.list) = 51
    /\ Len(call[t].res.val) = 50
    /\ call[t].res.val[50] = StockCode(50)

\* the value a token of param_values stands for: an integer if it parses as
\* one, else a float if it contains '.' and parses as one, else the text
CoercedValue(tok) ==
  IF IsIntLiteral(tok) THEN IntV(IntLiteral(tok))
  ELSE IF (\E i \in 1..Len(tok) : tok[i] = Dot) /\ IsFloatLiteral(tok)
    THEN FloatV(tok)
  ELSE StrV(tok)

\* the names zipped against the values; names beyond the values are dropped
ZippedParams(names, values) ==
  [i \in 1..(IF Len(names) < Len(values) THEN Len(names) ELSE Len(values)) |->
     [k |-> names[i], v |-> CoercedValue(values[i])]]

\* the finished create_custom_layout call of task t built its descriptors
LayoutBuilt(t) == ReachedApply(t) /\ call[t].name = "create_custom_layout"

\* C14: create_custom_layout zips the comma-split parameter names against the
\* comma-split parameter values, each value an integer if it parses as one,
\* else a float if it contains '.' and parses as one, else a string; names
\* beyond the number of values are dropped.  Every descriptor handed to a
\* panel method and every panel_info entry carries that mapping under the
\* indicator name.
C14_ParamsZippedAndCoerced ==
  \A t \in Tasks :
    LayoutBuilt(t) =>
      LET a == call[t].args
          expected ==
            [ name |-> Effective(a, "indicator_name").s,
              params |-> ZippedParams(SplitCodes(Effective(a, "param_names").s),
                                      SplitCodes(Effective(a, "param_values").s)) ]
          info == call[t].res.val.debug_info.panel_info
      IN /\ \A i \in 1..Len(info) : info[i].figures = expected
         /\ \A i \in 1..Len(call[t].log) :
              call[t].log[i].m \in PanelApplyMethods =>
                \A j \in 1..Len(call[t].log[i].a) :
                  call[t].log[i].a[j].figures = <<expected>>

\* values "5,abc,3.5" under the names "n1,n2,n3": n1 = 5 (int), n2 = "abc"
\* (string), n3 = 3.5 (float), handed to apply_ui_panel_control
C14_ExampleWitness ==
  \E t \in Tasks :
    /\ LayoutBuilt(t)
    /\ call[t].args.kv["param_values"] =
         StrV(<<"5", ",", "a", "b", "c", ",", "3", ".", "5">>)
    /\ InvokedAtAll(t, "apply_ui_panel_control")
    /\ call[t].res.val.debug_info.panel_info[1].figures.params =
         << [k |-> <<"n", "1">>, v |-> IntV(5)],
            [k |-> <<"n", "2">>, v |-> StrV(<<"a", "b", "c">>)],
            [k |-> <<"n", "3">>, v |-> FloatV(<<"3", ".", "5">>)] >>

\* two values under three names: the third name is dropped
C14_NameDroppedWitness ==
  \E t \in Tasks :
    /\ LayoutBuilt(t)
    /\ call[t].res.val.debug_info.panel_info[1].figures.params =
         << [k |-> <<"n", "1">>, v |-> IntV(7)],
            [k |-> <<"n", "2">>, v |-> FloatV(<<"2", ".", "5">>)] >>

\* the finished call of task t is one of the tool `name` whose codes argument
\* was a string and which returned
QueriedWith(t, name) ==
  ReturnedFrom(t, name) /\ IsStr(call[t].args.kv["codes"])

\* the get_market_data invocations of the call of task t
MarketDataInvocations(t) ==
  SelectSeq(call[t].log, LAMBDA e : e.m = "get_market_data")

\* the trimmed non-empty codes that contain '.' and have at least 6
\* characters, in input order
WellFormedCodes(codes) ==
  SelectSeq(SplitCodes(codes),
            LAMBDA c : Len(c) >= 6 /\ \E i \in 1..Len(c) : c[i] = Dot)

\* C15: get_latest_market_data and get_full_market_data hand to the backend
\* exactly the trimmed non-empty codes that contain '.' and have length at
\* least 6, in input order; when no code passes, get_market_data is not
\* called and the result is the error payload "未提供有效的股票代码".
C15_OnlyWellFormedCodesQueried ==
  \A t \in Tasks :
    \A name \in {"get_latest_market_data", "get_full_market_data"} :
      QueriedWith(t, name) =>
        LET want == WellFormedCodes(call[t].args.kv["codes"].s)
            inv == MarketDataInvocations(t)
        IN IF want = <<>>
             THEN inv = <<>> /\ call[t].res.val = [error |-> "no_valid_codes"]
             ELSE Len(inv) = 1 /\ inv[1].a.codes = want

\* "000001.SZ,BAD": only 000001.SZ was queried
C15_MalformedDroppedWitness ==
  \E t \in Tasks :
    /\ QueriedWith(t, "get_latest_market_data")
    /\ call[t].args.kv["codes"].s = PingAn \o <<Comma>> \o BAD
    /\ Len(MarketDataInvocations(t)) = 1
    /\ MarketDataInvocations(t)[1].a.codes = <<PingAn>>

\* "BAD": nothing was queried and the error payload came back
C15_AllMalformedWitness ==
  \E t \in Tasks :
    /\ QueriedWith(t, "get_full_market_data")
    /\ call[t].args.kv["codes"].s = BAD
    /\ MarketDataInvocations(t) = <<>>
    /\ call[t].res.val = [error |-> "no_valid_codes"]

\* the required fields the tool catalog gives each tool
CatalogRequired(name) ==
  CASE name = "get_instrument_detail" -> <<"code">>
    [] name \in MarketDataTools -> <<"codes">>
    [] OTHER -> <<>>

\* task t holds the answer to a tools/list request
Listed(t) == call[t].pc = "listed"

\* C16: handle_list_tools returns the same ordered sequence of eight tools on
\* every call, and its declared required fields are those of the catalog:
\* code for get_instrument_detail, codes for the three market-data tools, none
\* for create_chart_panel and create_custom_layout.
C16_ListingMatchesCatalog ==
  \A t \in Tasks :
    Listed(t) =>
      LET tools == call[t].res.val
      IN /\ Len(tools) = 8
         /\ \A i \in 1..Len(tools) :
              /\ tools[i].name = ToolNames[i]
              /\ tools[i].required = CatalogRequired(tools[i].name)

\* the backend data methods and the panel methods
DataMethods ==
  {"get_trading_dates", "get_stock_list_in_sector", "get_instrument_detail",
   "get_market_data"}

\* the positions of the start_xtdata invocations in the log of task t
StartPositions(t) ==
  SelectSeq([i \in 1..Len(call[t].log) |-> i],
            LAMBDA i : call[t].log[i].m = "start_xtdata")

\* start_xtdata raised in the finished call of task t
StartRaisedIn(t) ==
  Done(t) /\ \E k \in 1..Len(call[t].starts) : call[t].starts[k] = "raise"

\* a data or panel method was invoked in the call after its k-th start
BackendAfterStart(t, k) ==
  \E i \in (StartPositions(t)[k] + 1)..Len(call[t].log) :
    call[t].log[i].m \in DataMethods \cup PanelApplyMethods

LookupGuard(t, k) == call[t].auto /\ k = 1

\* what the handler of the call has to ask the backend for: a market-data
\* handler needs a code to query, a panel handler a stock and a panel method
\* that the backend has
HandlerHasBackendWork(t) ==
  LET name == call[t].name
      codes == call[t].args.kv["codes"].s
  IN CASE name = "get_history_market_data" -> SplitCodes(codes) # <<>>
       [] name \in {"get_latest_market_data", "get_full_market_data"} ->
            WellFormedCodes(codes) # <<>>
       [] name \in PanelTools ->
            /\ SplitCodes(codes) # <<>>
            /\ \/ call[t].env.primary \in {"ok", "raise"}
               \/ \E m \in Fallbacks : call[t].env.fb[m] \in {"ok", "raise"}
       [] OTHER -> TRUE

\* the content of the call is a payload of its handler: a list of texts for
\* the two list tools, a result or an error mapping for the others
HandlerPayload(t) ==
  LET val == call[t].res.val
  IN IF call[t].name \in {"get_trading_dates", "get_stock_list"}
       THEN Len(val) >= 1
       ELSE DOMAIN val \in { {"error"}, {"data"}, {"detail"}, {"message", "code"},
                             {"error", "env_info"},
                             {"success", "count", "details", "debug_info"} }

BackendEntries(log) ==
  SelectSeq(log, LAMBDA e : e.m \in DataMethods \cup PanelApplyMethods
                                     \cup {"refresh_ui"})

\* C18: in every tool call the startup guard has run before the first backend
\* data or panel method of the call is invoked, the stock-list lookup done to
\* fill in the codes of a panel tool included: a step that invokes a backend
\* method is taken by a call whose guard has run and returned, so no backend
\* method is invoked in a process whose guard never ran (where the backend
\* has a start_xtdata, never before its first invocation).
C18_GuardBeforeBackend ==
  [][ \A t \in Tasks :
        Len(BackendEntries(call'[t].log)) > Len(BackendEntries(call[t].log)) =>
          /\ call[t].guards >= 1
          /\ call[t].pc \in {"lookup", "handler"}
          /\ call[t].pc = "handler" /\ call[t].auto => call[t].guards = 2
          /\ hasStart => startLog # <<>> ]_vars

\* a panel tool called without codes: its lookup asked the backend for the
\* stock list after the guard had run, in a process that had not started the
\* backend before
C18_LookupAfterGuardWitness ==
  \E t \in Tasks :
    /\ call[t].name = "create_chart_panel"
    /\ call[t].auto
    /\ call[t].guards = 1
    /\ Len(call[t].log) = 2
    /\ call[t].log[1].m = "start_xtdata"
    /\ call[t].log[2].m = "get_stock_list_in_sector"
    /\ Len(startLog) = 1

\* the fallback names invoked in the call of task t, in the order of the calls
FallbacksInvoked(t) ==
  LET inv == SelectSeq(call[t].log, LAMBDA e : e.m \in Fallbacks)
  IN [i \in 1..Len(inv) |-> inv[i].m]

\* the position of a fallback name in the fixed order
OrderOf(m) == CHOOSE i \in 1..4 :
  <<"apply_panel_control", "create_panel", "show_panel", "display_panel">>[i] = m

\* a panel invocation of task t that got to its apply step without the
\* primary method
ProbedFallbacks(t) == ReachedApply(t) /\ call[t].env.primary = "absent"

\* the fallback names the backend has, in the fixed order
PresentFallbacks(t) ==
  SelectSeq(<<"apply_panel_control", "create_panel", "show_panel", "display_panel">>,
            LAMBDA m : call[t].env.fb[m] # "absent")

\* C19 (as stated): with the primary method absent the fallback names are
\* probed in the fixed order and probing stops at the first name present: no
\* fallback after the first present one is invoked, whatever that one does.
C19_StopsAtFirstPresent ==
  \A t \in Tasks :
    ProbedFallbacks(t) =>
      FallbacksInvoked(t) =
        (IF PresentFallbacks(t) = <<>> THEN <<>> ELSE <<PresentFallbacks(t)[1]>>)

\* C19 (amended): with the primary method absent the fallback names are
\* probed in the fixed order and probing stops at the first name that is
\* present and returns: a name is invoked iff it is present and no present
\* name before it returned, so no fallback after the first returning one is
\* invoked, and a present name that raises is followed by the next one.
C19_StopsAtFirstReturning ==
  \A t \in Tasks :
    ProbedFallbacks(t) =>
      LET inv == FallbacksInvoked(t)
      IN /\ \A i, j \in 1..Len(inv) : i < j => OrderOf(inv[i]) < OrderOf(inv[j])
         /\ \A m \in Fallbacks :
              (\E i \in 1..Len(inv) : inv[i] = m) <=>
                /\ call[t].env.fb[m] # "absent"
                /\ \A e \in Fallbacks :
                     OrderOf(e) < OrderOf(m) => call[t].env.fb[e] # "ok"

\* apply_panel_control raised, create_panel was invoked next and returned,
\* show_panel is present and was not invoked
C19_NextAfterRaiseWitness ==
  \E t \in Tasks :
    /\ ProbedFallbacks(t)
    /\ call[t].env.fb["apply_panel_control"] = "raise"
    /\ call[t].env.fb["create_panel"] = "ok"
    /\ call[t].env.fb["show_panel"] = "ok"
    /\ FallbacksInvoked(t) = <<"apply_panel_control", "create_panel">>

\* a panel invocation of task t that got to its apply step with a primary
\* method on the backend
PrimaryPresent(t) == ReachedApply(t) /\ call[t].env.primary \in {"ok", "raise"}

\* C20: when the backend has apply_ui_panel_control, a panel invocation calls
\* it exactly once, with the full descriptor sequence, and invokes no
\* fallback-named method, also when the primary call raises.
C20_PrimaryOnceNoFallback ==
  \A t \in Tasks :
    PrimaryPresent(t) =>
      LET prim == SelectSeq(call[t].log, LAMBDA e : e.m = "apply_ui_panel_control")
          stocks == call[t].res.val.details.stocks
      IN /\ Len(prim) = 1
         /\ Len(prim[1].a) = Len(stocks)
         /\ \A j \in 1..Len(stocks) : prim[1].a[j].stock = stocks[j]
         /\ FallbacksInvoked(t) = <<>>

\* the primary method raised while every fallback name was present, and none
\* of them was invoked
C20_PrimaryRaisedNoFallbackWitness ==
  \E t \in Tasks :
    /\ PrimaryPresent(t)
    /\ call[t].env.primary = "raise"
    /\ \A m \in Fallbacks : call[t].env.fb[m] = "ok"
    /\ FallbacksInvoked(t) = <<>>
    /\ Len(call[t].res.val.details.stocks) >= 2

\* the panel-apply invocations in the log of task t
ApplyEntries(t) ==
  SelectSeq(call[t].log, LAMBDA e : e.m \in PanelApplyMethods)

\* C21: in every panel invocation that reaches the apply step the descriptor
\* sequence handed to the backend has exactly one descriptor per resolved
\* stock code, in the order of the codes, each with the period and the one
\* indicator configuration; a descriptor whose construction raised is a plain
\* record of stock, period and figures, the codes after it are still
\* processed, and the count of the result is the number of descriptors.
C21_OneDescriptorPerStock ==
  \A t \in Tasks :
    ReachedApply(t) =>
      LET stocks == SplitCodes(call[t].args.kv["codes"].s)
          val == call[t].res.val
          info == val.debug_info.panel_info
      IN /\ val.count = Len(stocks)
         /\ val.details.stocks = stocks
         /\ Len(info) = Len(stocks)
         /\ \A e \in {ApplyEntries(t)[i] : i \in 1..Len(ApplyEntries(t))} :
              /\ Len(e.a) = val.count
              /\ \A j \in 1..Len(e.a) :
                   /\ e.a[j].stock = stocks[j]
                   /\ e.a[j].period = Effective(call[t].args, "period").s
                   /\ e.a[j].figures = <<info[1].figures>>
                   /\ info[j].figures = info[1].figures
                   /\ info[j].stock = stocks[j]
                   /\ (e.a[j].type = "dict") <=>
                        (call[t].env.uipanel = "raise_first" /\ j = 1)
                   /\ info[j].error <=> (e.a[j].type = "dict")

\* the first UIPanel construction raised: the first descriptor is a plain
\* record, the second stock still got its UIPanel, and both were handed to
\* apply_ui_panel_control
C21_ReplacedDescriptorWitness ==
  \E t \in Tasks :
    /\ ReachedApply(t)
    /\ call[t].env.uipanel = "raise_first"
    /\ call[t].res.val.count >= 2
    /\ Len(ApplyEntries(t)) = 1
    /\ ApplyEntries(t)[1].m = "apply_ui_panel_control"
    /\ Len(ApplyEntries(t)[1].a) = call[t].res.val.count
    /\ ApplyEntries(t)[1].a[1].type = "dict"
    /\ ApplyEntries(t)[1].a[2].type = "UIPanel"

\* the positions in the log of task t at which method m was invoked
PositionsOf(t, m) == {i \in 1..Len(call[t].log) : call[t].log[i].m = m}

\* C22: in a panel invocation the refresh step comes after the apply step and
\* before the settle pause and the result: refresh_ui is invoked exactly once
\* if the backend has it (and not otherwise), after every panel-apply method
\* and before the pause; when it raises, method_results records the failure
\* under refresh_ui, the pause is still made and the result has success = true.
C22_RefreshBetweenApplyAndPause ==
  \A t \in Tasks :
    ReachedApply(t) =>
      LET refresh == PositionsOf(t, "refresh_ui")
          pause == PositionsOf(t, "time.sleep")
          applied == {i \in 1..Len(call[t].log) :
                        call[t].log[i].m \in PanelApplyMethods}
          results == call[t].res.val.debug_info.method_results
      IN /\ Cardinality(refresh) =
              (IF call[t].env.refresh = "absent" THEN 0 ELSE 1)
         /\ pause = {Len(call[t].log)}
         /\ \A r \in refresh : \A i \in applied : i < r
         /\ \A r \in refresh : \A q \in pause : r < q
         /\ \A i \in applied : \A q \in pause : i < q
         /\ call[t].res.val.success = TRUE
         /\ results["refresh_ui"] =
              (CASE call[t].env.refresh = "absent" -> "none"
                 [] call[t].env.refresh = "ok" -> "called"
                 [] OTHER -> "error")

\* refresh_ui raised after apply_ui_panel_control had been invoked; the
\* failure is recorded, the pause was made and the result reports success
C22_RefreshRaisedWitness ==
  \E t \in Tasks :
    /\ ReachedApply(t)
    /\ call[t].env.refresh = "raise"
    /\ PositionsOf(t, "apply_ui_panel_control") # {}
    /\ PositionsOf(t, "time.sleep") = {Len(call[t].log)}
    /\ call[t].res.val.debug_info.method_results["refresh_ui"] = "error"
    /\ call[t].res.val.success = TRUE

\* C23: get_history_market_data applies no shape filter: it hands every
\* trimmed non-empty code to the backend, in input order, returns the error
\* payload without calling the backend only when none remains, and passes no
\* count; get_full_market_data passes count = -1.
C23_HistoryUnfilteredFullCountAll ==
  \A t \in Tasks :
    /\ QueriedWith(t, "get_history_market_data") =>
         LET want == SplitCodes(call[t].args.kv["codes"].s)
             inv == MarketDataInvocations(t)
         IN IF want = <<>>
              THEN inv = <<>> /\ call[t].res.val = [error |-> "no_valid_codes"]
              ELSE /\ Len(inv) = 1
                   /\ inv[1].a.codes = want
                   /\ inv[1].a.count = <<>>
                   /\ call[t].res.val # [error |-> "no_valid_codes"]
    /\ QueriedWith(t, "get_full_market_data") =>
         \A i \in 1..Len(MarketDataInvocations(t)) :
           MarketDataInvocations(t)[i].a.count = <<-1>>

\* "BAD" was handed to the backend by get_history_market_data, with no count
C23_MalformedQueriedWitness ==
  \E t \in Tasks :
    /\ QueriedWith(t, "get_history_market_data")
    /\ call[t].args.kv["codes"].s = BAD
    /\ Len(MarketDataInvocations(t)) = 1
    /\ MarketDataInvocations(t)[1].a.codes = <<BAD>>
    /\ MarketDataInvocations(t)[1].a.count = <<>>

\* get_full_market_data queried the backend with count = -1
C23_FullCountWitness ==
  \E t \in Tasks :
    /\ QueriedWith(t, "get_full_market_data")
    /\ Len(MarketDataInvocations(t)) = 1
    /\ MarketDataInvocations(t)[1].a.count = <<-1>>

\* C24: the readiness flag is monotonic: once a guard call has set it (after
\* a start_xtdata that returned, or on a backend with no start_xtdata), every
\* later step leaves xtdc_initialized true and invokes start_xtdata no more.
C24_FlagMonotonicNoRestart ==
  [][xtdc_initialized => (xtdc_initialized' /\ startLog' = startLog)]_vars

\* a guard call made after the flag was set returned to its handler without
\* a start, and the flag is still set
C24_LaterGuardSkipsStartWitness ==
  \E t \in Tasks :
    /\ xtdc_initialized
    /\ hasStart
    /\ OkCount(startLog) = 1
    /\ Done(t)
    /\ call[t].guards >= 1
    /\ call[t].starts = <<>>

\* the same on a backend that has no start_xtdata
C24_NoStartOperationWitness ==
  \E t \in Tasks :
    /\ xtdc_initialized
    /\ ~hasStart
    /\ startLog = <<>>
    /\ Done(t)
    /\ call[t].guards >= 2

\* method_results of the call of task t records no_method_found
NoMethodRecorded(t) ==
  call[t].res.val.debug_info.method_results["no_method_found"] = "true"

\* C25 (as stated): method_results records no_method_found only if none of
\* the fallback names is present on the backend; it is not recorded when a
\* fallback method was present and invoked but raised.
C25_RecordedOnlyIfNonePresent ==
  \A t \in Tasks :
    (ReachedApply(t) /\ NoMethodRecorded(t)) =>
      \A m \in Fallbacks : call[t].env.fb[m] = "absent"

\* C25 (amended): method_results records no_method_found exactly when the
\* primary method is absent and no fallback name returned, every fallback name
\* being absent or having been invoked and having raised; each fallback that
\* raised is recorded with its error next to no_method_found, and it is not
\* recorded when a fallback method returned or the primary method is present.
C25_RecordedIffNoFallbackReturned ==
  \A t \in Tasks :
    ReachedApply(t) =>
      LET results == call[t].res.val.debug_info.method_results
      IN /\ NoMethodRecorded(t) <=>
              /\ call[t].env.primary = "absent"
              /\ \A m \in Fallbacks : call[t].env.fb[m] \in {"absent", "raise"}
         /\ NoMethodRecorded(t) =>
              \A m \in Fallbacks :
                IF call[t].env.fb[m] = "raise"
                  THEN InvokedAtAll(t, m) /\ results[m] = "error"
                  ELSE ~InvokedAtAll(t, m) /\ results[m] = "none"

\* show_panel was present, was invoked and raised, no other fallback name is
\* present, and no_method_found is recorded
C25_RecordedAfterRaiseWitness ==
  \E t \in Tasks :
    /\ ReachedApply(t)
    /\ call[t].env.primary = "absent"
    /\ call[t].env.fb["show_panel"] = "raise"
    /\ \A m \in Fallbacks \ {"show_panel"} : call[t].env.fb[m] = "absent"
    /\ InvokedAtAll(t, "show_panel")
    /\ NoMethodRecorded(t)

\* the panel-apply methods the call of task t invoked
Attempted(t) == {m \in PanelApplyMethods : InvokedAtAll(t, m)}

\* what the backend made of method m in the call of task t
OutcomeOf(t, m) ==
  IF m = PrimaryMethod THEN call[t].env.primary ELSE call[t].env.fb[m]

\* C26 (as stated): a panel result has success = true only if some
\* panel-apply method returned without raising or no applicable method was
\* found, and never together with a recorded error for every panel-apply
\* method that was attempted.
C26_SuccessOnlyIfAppliedOrNoneFound ==
  \A t \in Tasks :
    (ReachedApply(t) /\ call[t].res.val.success = TRUE) =>
      LET results == call[t].res.val.debug_info.method_results
      IN /\ \/ \E m \in Attempted(t) : OutcomeOf(t, m) = "ok"
            \/ NoMethodRecorded(t)
         /\ ~(/\ Attempted(t) # {}
              /\ \A m \in Attempted(t) : results[m] = "error")

\* C26 (amended): a panel result that reaches the result step has
\* success = true whether or not a panel-apply method returned; when every
\* attempted method raised, the result still reports success and
\* method_results records the error of each attempted method (and a result
\* for a method that returned).
C26_SuccessWhateverApplyDid ==
  \A t \in Tasks :
    ReachedApply(t) =>
      LET results == call[t].res.val.debug_info.method_results
      IN /\ call[t].res.val.success = TRUE
         /\ \A m \in Attempted(t) :
              /\ OutcomeOf(t, m) \in {"ok", "raise"}
              /\ results[m] = (IF OutcomeOf(t, m) = "raise" THEN "error"
                               ELSE "result")

\* the only method attempted raised, no_method_found is not recorded, and
\* the result reports success with that method's error
C26_SuccessWithOnlyErrorsWitness ==
  \E t \in Tasks :
    /\ ReachedApply(t)
    /\ Attempted(t) # {}
    /\ \A m \in Attempted(t) :
         call[t].res.val.debug_info.method_results[m] = "error"
    /\ ~NoMethodRecorded(t)
    /\ call[t].res.val.success = TRUE

\* C27: in create_custom_layout each parameter name is paired with the value
\* at the same comma-separated position of param_values: the value of the
\* i-th non-empty name is the one the i-th value token stands for, never that
\* of another position, also when some value tokens are empty (names
\* "n1,n2,n3" with values "5,,20" never map n2 to 20).
C27_ValuesPairedByPosition ==
  \A t \in Tasks :
    LayoutBuilt(t) =>
      LET names == SplitCodes(Effective(call[t].args, "param_names").s)
          toks == Split(Effective(call[t].args, "param_values").s)
          info == call[t].res.val.debug_info.panel_info
      IN \A j \in 1..Len(info) :
           \A i \in 1..Len(info[j].figures.params) :
             LET p == info[j].figures.params[i]
             IN /\ p.k = names[i]
                /\ i <= Len(toks)
                /\ Strip(toks[i]) # <<>>
                /\ p.v = CoercedValue(Strip(toks[i]))

====
